---- MODULE Spec2Model ----
(***************************************************************************)
(* Connection adapters of ZerePy (Discord, EternalAI, GitHub): the action  *)
(* registry, perform_action dispatch, default injection, and the           *)
(* configure / is_configured credential lifecycle.                         *)
(*                                                                         *)
(* One adapter instance lives in one process: `self` names its class.      *)
(* Python values are records [kind, val]; a mapping (dict) is a function   *)
(* whose DOMAIN is its key set.  Action names are sequences of tokens in   *)
(* which "-" and "_" are tokens of their own, so that the hyphen to        *)
(* underscore conversion of perform_action is a real conversion.           *)
(***************************************************************************)
EXTENDS Integers, Sequences, FiniteSets, TLC

\* ------------------------------------------------------------------ bounds
MaxCount == 2        \* largest message_read_count a configuration carries

\* ------------------------------------------------------------------ values
S(s) == [kind |-> "str", val |-> s]
I(n) == [kind |-> "int", val |-> n]
B(b) == [kind |-> "bool", val |-> b]

None == "None"

\* Python truthiness of a value (`x or y`, `not x`).
Truthy(v) ==
    IF v.kind = "str" THEN v.val # ""
    ELSE IF v.kind = "int" THEN v.val # 0
    ELSE IF v.kind = "bool" THEN v.val
    ELSE FALSE

\* `not s` for an os.getenv result: unset (None) and the empty string are falsy.
EnvFalsy(s) == s = None \/ s = ""

EmptyMap == [k \in {} |-> S("")]
Put(m, k, v) == [x \in (DOMAIN m) \cup {k} |-> IF x = k THEN v ELSE m[x]]
Restrict(m, ks) == [x \in (DOMAIN m) \cap ks |-> m[x]]

\* ------------------------------------------------------------------ names
Name2(a, b) == <<a, "-", b>>
Name3(a, b, c) == <<a, "-", b, "-", c>>

\* str.replace("-", "_") on a tokenised name
Replace(name) == [i \in 1..Len(name) |-> IF name[i] = "-" THEN "_" ELSE name[i]]

Adapters == {"discord", "eternalai", "github"}

\* ------------------------------------------------------------------ registry
ActionParameter(name, required, type) ==
    [name |-> name, required |-> required, type |-> type]

Action(name, parameters) == [name |-> name, parameters |-> parameters]

DiscordRegisterActions ==
    LET chan == ActionParameter("channel_id", TRUE, "str")
        cnt == ActionParameter("count", FALSE, "int")
        msg == ActionParameter("message", TRUE, "str")
        mid == ActionParameter("message_id", TRUE, "str")
        emo == ActionParameter("emoji_name", FALSE, "str")
        srv == ActionParameter("server_id", FALSE, "str")
    IN  (Name2("read", "messages") :> Action(Name2("read", "messages"), <<chan, cnt>>))
     @@ (Name3("read", "mentioned", "messages") :>
             Action(Name3("read", "mentioned", "messages"), <<chan, cnt>>))
     @@ (Name2("post", "message") :> Action(Name2("post", "message"), <<chan, msg>>))
     @@ (Name3("reply", "to", "message") :>
             Action(Name3("reply", "to", "message"), <<chan, mid, msg>>))
     @@ (Name3("react", "to", "message") :>
             Action(Name3("react", "to", "message"), <<chan, mid, emo>>))
     @@ (Name2("list", "channels") :> Action(Name2("list", "channels"), <<srv>>))

EternalAIRegisterActions ==
    LET prompt == ActionParameter("prompt", TRUE, "str")
        sys == ActionParameter("system_prompt", TRUE, "str")
        optModel == ActionParameter("model", FALSE, "str")
        reqModel == ActionParameter("model", TRUE, "str")
    IN  (Name2("generate", "text") :>
             Action(Name2("generate", "text"), <<prompt, sys, optModel>>))
     @@ (Name2("check", "model") :> Action(Name2("check", "model"), <<reqModel>>))
     @@ (Name2("list", "models") :> Action(Name2("list", "models"), <<>>))

GitHubRegisterActions ==
    LET prompt == ActionParameter("prompt", TRUE, "str")
        sys == ActionParameter("system_prompt", TRUE, "str")
        optModel == ActionParameter("model", FALSE, "str")
        reqModel == ActionParameter("model", TRUE, "str")
    IN  (Name3("get", "repo", "updates") :>
             Action(Name2("generate", "text"), <<prompt, sys, optModel>>))
     @@ (Name2("analyze", "fork") :> Action(Name2("analyze", "fork"), <<reqModel>>))
     @@ (Name2("track", "changes") :> Action(Name2("track", "changes"), <<>>))

register_actions(a) ==
    CASE a = "discord" -> DiscordRegisterActions
      [] a = "eternalai" -> EternalAIRegisterActions
      [] a = "github" -> GitHubRegisterActions

\* The operations each class defines (what getattr(self, method_name) can find).
DiscordMethods ==
    { <<"list", "_", "channels">>, <<"read", "_", "messages">>,
      <<"read", "_", "mentioned", "_", "messages">>, <<"post", "_", "message">>,
      <<"reply", "_", "to", "_", "message">>, <<"react", "_", "to", "_", "message">>,
      <<"validate", "_", "config">>, <<"register", "_", "actions">>,
      <<"configure">>, <<"is", "_", "configured">>, <<"perform", "_", "action">> }

EternalAIMethods ==
    { <<"generate", "_", "text">>, <<"check", "_", "model">>, <<"list", "_", "models">>,
      <<"validate", "_", "config">>, <<"register", "_", "actions">>,
      <<"configure">>, <<"is", "_", "configured">>, <<"perform", "_", "action">> }

GitHubMethods ==
    { <<"generate", "_", "text">>, <<"check", "_", "model">>, <<"list", "_", "models">>,
      <<"validate", "_", "config">>, <<"register", "_", "actions">>,
      <<"configure">>, <<"is", "_", "configured">>, <<"perform", "_", "action">> }

Methods(a) ==
    CASE a = "discord" -> DiscordMethods
      [] a = "eternalai" -> EternalAIMethods
      [] a = "github" -> GitHubMethods

\* ------------------------------------------------------------------ validation
\* A value is compatible with a kind when its dynamic type is the kind or a
\* subtype of it (bool is a subtype of int).
Compatible(type, v) == v.kind = type \/ (type = "int" /\ v.kind = "bool")

Missing(p) == [err |-> "missing", param |-> p.name, expected |-> p.type]
WrongKind(p) == [err |-> "type", param |-> p.name, expected |-> p.type]

RECURSIVE ValidateFrom(_, _, _)
ValidateFrom(parameters, params, i) ==
    IF i > Len(parameters) THEN <<>>
    ELSE LET p == parameters[i]
             here == IF p.required /\ p.name \notin DOMAIN params THEN <<Missing(p)>>
                     ELSE IF p.name \in DOMAIN params /\ ~Compatible(p.type, params[p.name])
                          THEN <<WrongKind(p)>>
                          ELSE <<>>
         IN  here \o ValidateFrom(parameters, params, i + 1)

\* Action.validate_params: one message per violation, in declaration order.
validate_params(action, params) == ValidateFrom(action.parameters, params, 1)

\* ------------------------------------------------------------------ validate_config
Accept(config) ==
    [ok |-> TRUE, config |-> config, field |-> "", named |-> <<>>, constraint |-> ""]

\* raise ValueError(message): `named` are the fields the message names, `field`
\* the first of them.
Reject(config, named, constraint) ==
    [ok |-> FALSE, config |-> config, field |-> named[1], named |-> named,
     constraint |-> constraint]

\* [field for field in required_fields if field not in config]
missing_fields(required_fields, config) ==
    SelectSeq(required_fields, LAMBDA field : field \notin DOMAIN config)

\* Variant: the server_id test is left out.
Discord_validate_config_NoServerId(config) ==
    LET missing == missing_fields(<<"server_id", "message_read_count",
                                    "message_emoji_name">>, config)
    IN  IF missing # <<>> THEN Reject(config, missing, "missing")
        ELSE IF ~Compatible("int", config["message_read_count"])
                \/ (config["message_read_count"].kind = "int"
                    /\ config["message_read_count"].val <= 0)
                \/ (config["message_read_count"].kind = "bool"
                    /\ ~config["message_read_count"].val)
             THEN Reject(config, <<"message_read_count">>, "positive integer")
        ELSE IF config["message_emoji_name"].kind # "str"
                \/ config["message_emoji_name"].val = ""
             THEN Reject(config, <<"message_emoji_name">>, "valid string")
        ELSE Accept(config)

\* isinstance(x, int) holds for a bool, and True <= 0 is false, False <= 0 true.
Discord_validate_config(config) ==
    LET missing == missing_fields(<<"server_id", "message_read_count",
                                    "message_emoji_name">>, config)
    IN  IF missing # <<>> THEN Reject(config, missing, "missing")
        ELSE IF ~Compatible("int", config["message_read_count"])
                \/ (config["message_read_count"].kind = "int"
                    /\ config["message_read_count"].val <= 0)
                \/ (config["message_read_count"].kind = "bool"
                    /\ ~config["message_read_count"].val)
             THEN Reject(config, <<"message_read_count">>, "positive integer")
        ELSE IF config["message_emoji_name"].kind # "str"
                \/ config["message_emoji_name"].val = ""
             THEN Reject(config, <<"message_emoji_name">>, "valid string")
        ELSE IF config["server_id"].kind # "str" \/ config["server_id"].val = ""
             THEN Reject(config, <<"server_id">>, "valid string")
        ELSE Accept(config)

EternalAI_validate_config(config) ==
    LET missing == missing_fields(<<"model">>, config)
    IN  IF missing # <<>> THEN Reject(config, missing, "missing")
        ELSE IF config["model"].kind # "str" THEN Reject(config, <<"model">>, "string")
        ELSE Accept(config)

GitHub_validate_config(config) == Accept(config)

validate_config(a, config) ==
    CASE a = "discord" -> Discord_validate_config(config)
      [] a = "eternalai" -> EternalAI_validate_config(config)
      [] a = "github" -> GitHub_validate_config(config)

\* ------------------------------------------------------------------ platform
Tokens == {"t1", "t2"}
Urls == {"u1"}

\* One outbound request: which credential it carried and whether the platform
\* accepted it.  `valid` is the set of credentials the platform accepts now.
Call(verb, api, cred, params, valid) ==
    [verb |-> verb, api |-> api, cred |-> cred, params |-> params,
     accepted |-> cred \in valid]

NoClient == [api_key |-> None, base_url |-> None]
OpenAI(api_key, base_url) == [api_key |-> api_key, base_url |-> base_url]

\* What an operation hands back to perform_action.
OpResult(outcome, cause, calls, client, bot) ==
    [outcome |-> outcome, cause |-> cause, calls |-> calls, client |-> client,
     bot_username |-> bot]

\* Variant: the operations take no **kwargs, so any other key is a TypeError.
Binds_Strict(kwargs, required) == required = DOMAIN kwargs

\* method(**kwargs): a named parameter without default that kwargs lacks is a TypeError.
Binds(kwargs, required) == required \subseteq DOMAIN kwargs

\* ------------------------------------------------------------------ Discord operations
_get_request_auth_token(env) == env["DISCORD_TOKEN"]

DiscordRequest(verb, api, params, st) ==
    LET call == Call(verb, api, _get_request_auth_token(st.env), params, st.valid)
    IN  IF call.accepted
        THEN OpResult("ok", "", <<call>>, st.client, st.bot_username)
        ELSE OpResult("DiscordAPIError", "status", <<call>>, st.client, st.bot_username)

_get_request(api, params, st) == DiscordRequest("GET", api, params, st)
_post_request(api, params, st) == DiscordRequest("POST", api, params, st)
_put_request(api, params, st) == DiscordRequest("PUT", api, params, st)

list_channels(kwargs, st) ==
    _get_request("/guilds/{server_id}/channels", Restrict(kwargs, {"server_id"}), st)

read_messages(kwargs, st) ==
    _get_request("/channels/{channel_id}/messages?limit={count}",
                 Restrict(kwargs, {"channel_id", "count"}), st)

read_mentioned_messages(kwargs, st) ==
    read_messages(Restrict(kwargs, {"channel_id", "count"}), st)

post_message(kwargs, st) ==
    _post_request("/channels/{channel_id}/messages",
                  Restrict(kwargs, {"channel_id", "message"}), st)

reply_to_message(kwargs, st) ==
    _post_request("/channels/{channel_id}/messages",
                  Restrict(kwargs, {"channel_id", "message_id", "message"}), st)

react_to_message(kwargs, st) ==
    _put_request("/channels/{channel_id}/messages/{message_id}/reactions/{emoji_name}/@me",
                 Restrict(kwargs, {"channel_id", "message_id", "emoji_name"}), st)

\* Named parameters without default of each Discord operation.
DiscordSignature(method) ==
    CASE method = <<"list", "_", "channels">> -> {"server_id"}
      [] method = <<"read", "_", "messages">> -> {"channel_id", "count"}
      [] method = <<"read", "_", "mentioned", "_", "messages">> -> {"channel_id", "count"}
      [] method = <<"post", "_", "message">> -> {"channel_id", "message"}
      [] method = <<"reply", "_", "to", "_", "message">> ->
             {"channel_id", "message_id", "message"}
      [] method = <<"react", "_", "to", "_", "message">> ->
             {"channel_id", "message_id", "emoji_name"}
      [] OTHER -> {}

DiscordInvoke(method, kwargs, st) ==
    IF ~Binds(kwargs, DiscordSignature(method))
    THEN OpResult("TypeError", "binding", <<>>, st.client, st.bot_username)
    ELSE CASE method = <<"list", "_", "channels">> -> list_channels(kwargs, st)
           [] method = <<"read", "_", "messages">> -> read_messages(kwargs, st)
           [] method = <<"read", "_", "mentioned", "_", "messages">> ->
                  read_mentioned_messages(kwargs, st)
           [] method = <<"post", "_", "message">> -> post_message(kwargs, st)
           [] method = <<"reply", "_", "to", "_", "message">> -> reply_to_message(kwargs, st)
           [] method = <<"react", "_", "to", "_", "message">> -> react_to_message(kwargs, st)
           [] OTHER -> OpResult("TypeError", "binding", <<>>, st.client, st.bot_username)

\* ------------------------------------------------------------------ EternalAI operations
\* _get_client: the cached client, or one built from the environment.
EternalAI_get_client(st) ==
    IF st.client # NoClient THEN [ok |-> TRUE, client |-> st.client]
    ELSE IF EnvFalsy(st.env["EternalAI_API_KEY"]) \/ EnvFalsy(st.env["EternalAI_API_URL"])
         THEN [ok |-> FALSE, client |-> st.client]
         ELSE [ok |-> TRUE,
               client |-> OpenAI(st.env["EternalAI_API_KEY"], st.env["EternalAI_API_URL"])]

\* Variant: the default is taken only when the key is absent.
OrElse_Present(kwargs, k, default) == IF k \in DOMAIN kwargs THEN kwargs[k] ELSE default

\* `x or default` for a keyword parameter whose default is None.
OrElse(kwargs, k, default) ==
    IF k \in DOMAIN kwargs /\ Truthy(kwargs[k]) THEN kwargs[k] ELSE default

generate_text(kwargs, st) ==
    LET got == EternalAI_get_client(st)
        bot == st.bot_username
    IN  IF ~got.ok
        THEN OpResult("EternalAIAPIError", "EternalAIConfigurationError", <<>>, got.client, bot)
        ELSE IF ~("model" \in DOMAIN kwargs /\ Truthy(kwargs["model"]))
                /\ "model" \notin DOMAIN st.config
        THEN OpResult("EternalAIAPIError", "KeyError", <<>>, got.client, bot)
        ELSE IF ~("chain_id" \in DOMAIN kwargs /\ Truthy(kwargs["chain_id"]))
                /\ "chain_id" \notin DOMAIN st.config
        THEN OpResult("EternalAIAPIError", "KeyError", <<>>, got.client, bot)
        ELSE LET model == OrElse(kwargs, "model", st.config["model"])
                 chain0 == OrElse(kwargs, "chain_id", st.config["chain_id"])
                 chain_id == IF ~Truthy(chain0) THEN S("45762") ELSE chain0
                 params == ("model" :> model) @@ ("chain_id" :> chain_id)
                           @@ Restrict(kwargs, {"prompt", "system_prompt"})
                 call == Call("POST", "chat.completions", got.client.api_key, params,
                              st.valid)
             IN  IF call.accepted
                 THEN OpResult("ok", "", <<call>>, got.client, bot)
                 ELSE OpResult("EternalAIAPIError", "platform", <<call>>, got.client, bot)

check_model(kwargs, st) ==
    LET got == EternalAI_get_client(st)
        bot == st.bot_username
    IN  IF ~got.ok
        THEN OpResult("EternalAIAPIError", "EternalAIConfigurationError", <<>>, got.client, bot)
        ELSE LET call == Call("GET", "models.retrieve", got.client.api_key,
                              Restrict(kwargs, {"model"}), st.valid)
             IN  OpResult("ok", "", <<call>>, got.client, bot)

list_models(kwargs, st) ==
    LET got == EternalAI_get_client(st)
        bot == st.bot_username
    IN  IF ~got.ok
        THEN OpResult("EternalAIAPIError", "EternalAIConfigurationError", <<>>, got.client, bot)
        ELSE LET call == Call("GET", "models.list", got.client.api_key, EmptyMap, st.valid)
             IN  IF call.accepted
                 THEN OpResult("ok", "", <<call>>, got.client, bot)
                 ELSE OpResult("EternalAIAPIError", "platform", <<call>>, got.client, bot)

EternalAISignature(method) ==
    CASE method = <<"generate", "_", "text">> -> {"prompt", "system_prompt"}
      [] method = <<"check", "_", "model">> -> {"model"}
      [] OTHER -> {}

EternalAIInvoke(method, kwargs, st) ==
    IF ~Binds(kwargs, EternalAISignature(method))
    THEN OpResult("TypeError", "binding", <<>>, st.client, st.bot_username)
    ELSE CASE method = <<"generate", "_", "text">> -> generate_text(kwargs, st)
           [] method = <<"check", "_", "model">> -> check_model(kwargs, st)
           [] method = <<"list", "_", "models">> -> list_models(kwargs, st)
           [] OTHER -> OpResult("TypeError", "binding", <<>>, st.client, st.bot_username)

\* ------------------------------------------------------------------ GitHub operations
GitHub_get_client(st) ==
    IF st.client # NoClient THEN [ok |-> TRUE, client |-> st.client]
    ELSE IF EnvFalsy(st.env["GITHUB_ACCESS_TOKEN"])
         THEN [ok |-> FALSE, client |-> st.client]
         ELSE [ok |-> TRUE, client |-> OpenAI(st.env["GITHUB_ACCESS_TOKEN"], None)]

GitHub_generate_text(kwargs, st) ==
    LET got == GitHub_get_client(st)
        bot == st.bot_username
    IN  IF ~got.ok
        THEN OpResult("GitHubAPIError", "GitHubConfigurationError", <<>>, got.client, bot)
        ELSE IF ~("model" \in DOMAIN kwargs /\ Truthy(kwargs["model"]))
                /\ "model" \notin DOMAIN st.config
        THEN OpResult("GitHubAPIError", "KeyError", <<>>, got.client, bot)
        ELSE LET model == OrElse(kwargs, "model", st.config["model"])
                 params == ("model" :> model) @@ Restrict(kwargs, {"prompt", "system_prompt"})
                 call == Call("POST", "chat.completions", got.client.api_key, params,
                              st.valid)
             IN  IF call.accepted
                 THEN OpResult("ok", "", <<call>>, got.client, bot)
                 ELSE OpResult("GitHubAPIError", "platform", <<call>>, got.client, bot)

\* `client = self._get_client` takes the bound method and never calls it: the
\* retrieve on it fails inside the inner try, which returns False.
GitHub_check_model(kwargs, st) == OpResult("ok", "", <<>>, st.client, st.bot_username)

GitHub_list_models(kwargs, st) ==
    LET got == GitHub_get_client(st)
        bot == st.bot_username
    IN  IF ~got.ok
        THEN OpResult("GitHubAPIError", "GitHubConfigurationError", <<>>, got.client, bot)
        ELSE LET call == Call("GET", "models.list", got.client.api_key, EmptyMap, st.valid)
             IN  IF call.accepted
                 THEN OpResult("ok", "", <<call>>, got.client, bot)
                 ELSE OpResult("GitHubAPIError", "platform", <<call>>, got.client, bot)

GitHubInvoke(method, kwargs, st) ==
    IF ~Binds(kwargs, EternalAISignature(method))
    THEN OpResult("TypeError", "binding", <<>>, st.client, st.bot_username)
    ELSE CASE method = <<"generate", "_", "text">> -> GitHub_generate_text(kwargs, st)
           [] method = <<"check", "_", "model">> -> GitHub_check_model(kwargs, st)
           [] method = <<"list", "_", "models">> -> GitHub_list_models(kwargs, st)
           [] OTHER -> OpResult("TypeError", "binding", <<>>, st.client, st.bot_username)

\* ------------------------------------------------------------------ perform_action
\* What perform_action leaves behind: how it ended, the caller's mapping after
\* the call, the operation reached and the mapping it received, the platform
\* calls made, and the instance fields after the call.
PResult(outcome, cause, errors, kwargs, method, received, op) ==
    [outcome |-> outcome, cause |-> cause, errors |-> errors, kwargs |-> kwargs,
     method |-> method, received |-> received, calls |-> op.calls,
     client |-> op.client, bot_username |-> op.bot_username]

NoOp(st) == OpResult("", "", <<>>, st.client, st.bot_username)

\* Variant: the read-mentioned-messages branch is missing.
DiscordInject_NoMentioned(action_name, kwargs, config) ==
    IF action_name = Name2("read", "messages") /\ "count" \notin DOMAIN kwargs
    THEN Put(kwargs, "count", config["message_read_count"])
    ELSE IF action_name = Name3("react", "to", "message")
            /\ "emoji_name" \notin DOMAIN kwargs
    THEN Put(kwargs, "emoji_name", config["message_emoji_name"])
    ELSE IF action_name = Name2("list", "channels") /\ "server_id" \notin DOMAIN kwargs
    THEN Put(kwargs, "server_id", config["server_id"])
    ELSE kwargs

\* Variant: the configured value is written without the `not in kwargs` test.
DiscordInject_Overwrite(action_name, kwargs, config) ==
    IF action_name \in {Name2("read", "messages"), Name3("read", "mentioned", "messages")}
    THEN Put(kwargs, "count", config["message_read_count"])
    ELSE IF action_name = Name3("react", "to", "message")
    THEN Put(kwargs, "emoji_name", config["message_emoji_name"])
    ELSE IF action_name = Name2("list", "channels")
    THEN Put(kwargs, "server_id", config["server_id"])
    ELSE kwargs

\* "Add config parameters if not provided": the caller's mapping gains the key.
DiscordInject(action_name, kwargs, config) ==
    IF action_name = Name2("read", "messages") /\ "count" \notin DOMAIN kwargs
    THEN Put(kwargs, "count", config["message_read_count"])
    ELSE IF action_name = Name3("read", "mentioned", "messages")
            /\ "count" \notin DOMAIN kwargs
    THEN Put(kwargs, "count", config["message_read_count"])
    ELSE IF action_name = Name3("react", "to", "message")
            /\ "emoji_name" \notin DOMAIN kwargs
    THEN Put(kwargs, "emoji_name", config["message_emoji_name"])
    ELSE IF action_name = Name2("list", "channels") /\ "server_id" \notin DOMAIN kwargs
    THEN Put(kwargs, "server_id", config["server_id"])
    ELSE kwargs

Discord_perform_action(action_name, kwargs, st) ==
    IF action_name \notin DOMAIN st.actions
    THEN PResult("KeyError", "Unknown action", <<>>, kwargs, <<>>, EmptyMap, NoOp(st))
    ELSE LET errors == validate_params(st.actions[action_name], kwargs)
         IN  IF errors # <<>>
             THEN PResult("ValueError", "Invalid parameters", errors, kwargs, <<>>,
                          EmptyMap, NoOp(st))
             ELSE LET kw == DiscordInject(action_name, kwargs, st.config)
                      method_name == Replace(action_name)
                  IN  IF method_name \notin DiscordMethods
                      THEN PResult("AttributeError", "getattr", <<>>, kw, <<>>,
                                   EmptyMap, NoOp(st))
                      ELSE LET op == DiscordInvoke(method_name, kw, st)
                           IN  PResult(op.outcome, op.cause, <<>>, kw, method_name, kw, op)

\* Variant: only the first validation message is raised.
EternalAI_perform_action_FirstError(action_name, kwargs, st) ==
    IF action_name \notin DOMAIN st.actions
    THEN PResult("KeyError", "Unknown action", <<>>, kwargs, <<>>, EmptyMap, NoOp(st))
    ELSE LET errors == validate_params(st.actions[action_name], kwargs)
         IN  IF errors # <<>>
             THEN PResult("ValueError", "Invalid parameters", <<Head(errors)>>, kwargs,
                          <<>>, EmptyMap, NoOp(st))
             ELSE LET method_name == Replace(action_name)
                  IN  IF method_name \notin EternalAIMethods
                      THEN PResult("AttributeError", "getattr", <<>>, kwargs, <<>>,
                                   EmptyMap, NoOp(st))
                      ELSE LET op == EternalAIInvoke(method_name, kwargs, st)
                           IN  PResult(op.outcome, op.cause, <<>>, kwargs, method_name,
                                       kwargs, op)

EternalAI_perform_action(action_name, kwargs, st) ==
    IF action_name \notin DOMAIN st.actions
    THEN PResult("KeyError", "Unknown action", <<>>, kwargs, <<>>, EmptyMap, NoOp(st))
    ELSE LET errors == validate_params(st.actions[action_name], kwargs)
         IN  IF errors # <<>>
             THEN PResult("ValueError", "Invalid parameters", errors, kwargs, <<>>,
                          EmptyMap, NoOp(st))
             ELSE LET method_name == Replace(action_name)
                  IN  IF method_name \notin EternalAIMethods
                      THEN PResult("AttributeError", "getattr", <<>>, kwargs, <<>>,
                                   EmptyMap, NoOp(st))
                      ELSE LET op == EternalAIInvoke(method_name, kwargs, st)
                           IN  PResult(op.outcome, op.cause, <<>>, kwargs, method_name,
                                       kwargs, op)

\* Variant: without the registry test an unknown name goes straight to getattr.
GitHub_perform_action_NoLookup(action_name, kwargs, st) ==
    LET errors == IF action_name \in DOMAIN st.actions
                  THEN validate_params(st.actions[action_name], kwargs)
                  ELSE <<>>
    IN  IF errors # <<>>
        THEN PResult("ValueError", "Invalid parameters", errors, kwargs, <<>>,
                     EmptyMap, NoOp(st))
        ELSE LET method_name == Replace(action_name)
             IN  IF method_name \notin GitHubMethods
                 THEN PResult("AttributeError", "getattr", <<>>, kwargs, <<>>,
                              EmptyMap, NoOp(st))
                 ELSE LET op == GitHubInvoke(method_name, kwargs, st)
                      IN  PResult(op.outcome, op.cause, <<>>, kwargs, method_name,
                                  kwargs, op)

\* Variant: getattr(self, method_name, None) and a missing operation returns None.
GitHub_perform_action_Swallow(action_name, kwargs, st) ==
    IF action_name \notin DOMAIN st.actions
    THEN PResult("KeyError", "Unknown action", <<>>, kwargs, <<>>, EmptyMap, NoOp(st))
    ELSE LET errors == validate_params(st.actions[action_name], kwargs)
         IN  IF errors # <<>>
             THEN PResult("ValueError", "Invalid parameters", errors, kwargs, <<>>,
                          EmptyMap, NoOp(st))
             ELSE LET method_name == Replace(action_name)
                  IN  IF method_name \notin GitHubMethods
                      THEN PResult("ok", "", <<>>, kwargs, <<>>, EmptyMap, NoOp(st))
                      ELSE LET op == GitHubInvoke(method_name, kwargs, st)
                           IN  PResult(op.outcome, op.cause, <<>>, kwargs, method_name,
                                       kwargs, op)

\* No registered GitHub action name converts to an operation of the class, so
\* the invocation line is never reached with a registry built by register_actions.
GitHub_perform_action(action_name, kwargs, st) ==
    IF action_name \notin DOMAIN st.actions
    THEN PResult("KeyError", "Unknown action", <<>>, kwargs, <<>>, EmptyMap, NoOp(st))
    ELSE LET errors == validate_params(st.actions[action_name], kwargs)
         IN  IF errors # <<>>
             THEN PResult("ValueError", "Invalid parameters", errors, kwargs, <<>>,
                          EmptyMap, NoOp(st))
             ELSE LET method_name == Replace(action_name)
                  IN  IF method_name \notin GitHubMethods
                      THEN PResult("AttributeError", "getattr", <<>>, kwargs, <<>>,
                                   EmptyMap, NoOp(st))
                      ELSE LET op == GitHubInvoke(method_name, kwargs, st)
                           IN  PResult(op.outcome, op.cause, <<>>, kwargs, method_name,
                                       kwargs, op)

perform_action(a, action_name, kwargs, st) ==
    CASE a = "discord" -> Discord_perform_action(action_name, kwargs, st)
      [] a = "eternalai" -> EternalAI_perform_action(action_name, kwargs, st)
      [] a = "github" -> GitHub_perform_action(action_name, kwargs, st)

\* ------------------------------------------------------------------ credential lifecycle
\* load_dotenv(): a key of the .env file is copied into the process
\* environment only when the environment does not hold that key already.
load_dotenv(env, dotenv) ==
    [k \in DOMAIN env |-> IF env[k] = None /\ k \in DOMAIN dotenv THEN dotenv[k] ELSE env[k]]

\* set_key(".env", key, value): writes the file, not the process environment.
set_key(dotenv, k, v) == [dotenv EXCEPT ![k] = v]

\* What a lifecycle call leaves behind; logged: the except branch wrote its
\* diagnostic message.
LResult(ret, asked, prompted, entered, calls, env, dotenv, bot, logged) ==
    [ret |-> ret, asked |-> asked, prompted |-> prompted, entered |-> entered,
     calls |-> calls, env |-> env, dotenv |-> dotenv, bot_username |-> bot,
     logged |-> logged]

\* _test_connection(api_key): the request is authorised by
\* _get_request_auth_token, which reads the environment; api_key is not used.
Discord_test_connection(api_key, st) ==
    LET r == _get_request("/users/@me", EmptyMap, st)
    IN  IF r.outcome = "ok"
        THEN OpResult("ok", "", r.calls, st.client, "bot")
        ELSE OpResult("DiscordConnectionError", r.outcome, r.calls, st.client,
                      st.bot_username)

Discord_is_configured(verbose, st) ==
    LET env1 == load_dotenv(st.env, st.dotenv)
        api_key == env1["DISCORD_TOKEN"]
    IN  IF EnvFalsy(api_key)
        THEN LResult(FALSE, FALSE, FALSE, None, <<>>, env1, st.dotenv, st.bot_username,
                     FALSE)
        ELSE LET t == Discord_test_connection(api_key, [st EXCEPT !.env = env1])
             IN  LResult(t.outcome = "ok", FALSE, FALSE, None, t.calls, env1, st.dotenv,
                         t.bot_username, verbose /\ t.outcome # "ok")

Discord_configure(answer, api_key, st) ==
    LET ic == Discord_is_configured(FALSE, st)
        st1 == [st EXCEPT !.env = ic.env, !.bot_username = ic.bot_username]
    IN  IF ic.ret /\ answer # "y"
        THEN LResult(TRUE, TRUE, FALSE, None, ic.calls, ic.env, st.dotenv, ic.bot_username,
                     FALSE)
        ELSE LET t == Discord_test_connection(api_key, st1)
             IN  IF t.outcome = "ok"
                 THEN LResult(TRUE, ic.ret, TRUE, api_key, ic.calls \o t.calls, ic.env,
                              set_key(st.dotenv, "DISCORD_TOKEN", api_key), t.bot_username,
                              FALSE)
                 ELSE LResult(FALSE, ic.ret, TRUE, api_key, ic.calls \o t.calls, ic.env,
                              st.dotenv, t.bot_username, FALSE)

EternalAI_is_configured(verbose, st) ==
    LET env1 == load_dotenv(st.env, st.dotenv)
        api_key == env1["EternalAI_API_KEY"]
        api_url == env1["EternalAI_API_URL"]
    IN  IF EnvFalsy(api_key) \/ EnvFalsy(api_url)
        THEN LResult(FALSE, FALSE, FALSE, None, <<>>, env1, st.dotenv, st.bot_username,
                     FALSE)
        ELSE LET call == Call("GET", "models.list", OpenAI(api_key, api_url).api_key,
                              EmptyMap, st.valid)
             IN  LResult(call.accepted, FALSE, FALSE, None, <<call>>, env1, st.dotenv,
                         st.bot_username, verbose /\ ~call.accepted)

EternalAI_configure(answer, api_key, api_url, st) ==
    LET ic == EternalAI_is_configured(FALSE, st)
    IN  IF ic.ret /\ answer # "y"
        THEN LResult(TRUE, TRUE, FALSE, None, ic.calls, ic.env, st.dotenv, st.bot_username,
                     FALSE)
        ELSE LET saved == set_key(set_key(st.dotenv, "EternalAI_API_KEY", api_key),
                                  "EternalAI_API_URL", api_url)
                 call == Call("GET", "models.list", OpenAI(api_key, api_url).api_key,
                              EmptyMap, st.valid)
             IN  LResult(call.accepted, ic.ret, TRUE, api_key, ic.calls \o <<call>>, ic.env,
                         saved, st.bot_username, FALSE)

\* The check with the verification left out: a stored key is taken as good.
GitHub_is_configured_Unverified(verbose, st) ==
    LET env1 == load_dotenv(st.env, st.dotenv)
        api_key == env1["OPENAI_API_KEY"]
    IN  LResult(~EnvFalsy(api_key), FALSE, FALSE, None, <<>>, env1, st.dotenv,
                st.bot_username, FALSE)

GitHub_is_configured(verbose, st) ==
    LET env1 == load_dotenv(st.env, st.dotenv)
        api_key == env1["OPENAI_API_KEY"]
    IN  IF EnvFalsy(api_key)
        THEN LResult(FALSE, FALSE, FALSE, None, <<>>, env1, st.dotenv, st.bot_username,
                     FALSE)
        ELSE LET call == Call("GET", "models.list", OpenAI(api_key, None).api_key,
                              EmptyMap, st.valid)
             IN  LResult(call.accepted, FALSE, FALSE, None, <<call>>, env1, st.dotenv,
                         st.bot_username, verbose /\ ~call.accepted)

GitHub_configure(answer, api_key, st) ==
    LET ic == GitHub_is_configured(FALSE, st)
    IN  IF ic.ret /\ answer # "y"
        THEN LResult(TRUE, TRUE, FALSE, None, ic.calls, ic.env, st.dotenv, st.bot_username,
                     FALSE)
        ELSE LET saved == set_key(st.dotenv, "OPENAI_API_KEY", api_key)
                 call == Call("GET", "models.list", OpenAI(api_key, None).api_key,
                              EmptyMap, st.valid)
             IN  LResult(call.accepted, ic.ret, TRUE, api_key, ic.calls \o <<call>>, ic.env,
                         saved, st.bot_username, FALSE)

is_configured(a, verbose, st) ==
    CASE a = "discord" -> Discord_is_configured(verbose, st)
      [] a = "eternalai" -> EternalAI_is_configured(verbose, st)
      [] a = "github" -> GitHub_is_configured(verbose, st)

configure(a, answer, api_key, api_url, st) ==
    CASE a = "discord" -> Discord_configure(answer, api_key, st)
      [] a = "eternalai" -> EternalAI_configure(answer, api_key, api_url, st)
      [] a = "github" -> GitHub_configure(answer, api_key, st)

\* ------------------------------------------------------------------ inputs
\* Environment keys each class reads or writes.
EnvKeys(a) ==
    CASE a = "discord" -> {"DISCORD_TOKEN"}
      [] a = "eternalai" -> {"EternalAI_API_KEY", "EternalAI_API_URL"}
      [] a = "github" -> {"OPENAI_API_KEY", "GITHUB_ACCESS_TOKEN"}

EnvValues(k) == IF k = "EternalAI_API_URL" THEN Urls \cup {None} ELSE Tokens \cup {None}

\* Process environments: every key set or unset; an EternalAI key without its
\* url is kept as the one case of a half-set pair.
EnvStates(a) ==
    { e \in [EnvKeys(a) -> Tokens \cup Urls \cup {None}] :
          /\ \A k \in EnvKeys(a) : e[k] \in EnvValues(k)
          /\ a = "eternalai" =>
                 (e["EternalAI_API_URL"] = None =>
                      e["EternalAI_API_KEY"] \in {None, "t1"})
          /\ a = "eternalai" =>
                 (e["EternalAI_API_KEY"] = None => e["EternalAI_API_URL"] = None)
          /\ a = "github" => e["GITHUB_ACCESS_TOKEN"] \in {None, "t1"} }

\* Keys configure() writes to the .env file; the file holds a credential whole.
DotenvKeys(a) == EnvKeys(a) \ {"GITHUB_ACCESS_TOKEN"}

DotenvStates(a) ==
    { d \in [DotenvKeys(a) -> Tokens \cup Urls \cup {None}] :
          /\ \A k \in DotenvKeys(a) : d[k] \in EnvValues(k)
          /\ a = "eternalai" =>
                 (d["EternalAI_API_KEY"] = None <=> d["EternalAI_API_URL"] = None) }

\* Values a configuration file may give a field: of the right kind and in
\* range, of the right kind and out of range, and of another kind.
ConfigValuesFor(k) ==
    CASE k = "message_read_count" ->
             { I(n) : n \in (0 - 1)..MaxCount } \cup { S("n1"), B(TRUE), B(FALSE) }
      [] k = "model" -> { S("m1"), S(""), I(MaxCount) }
      [] k = "chain_id" -> { S("c1") }
      [] OTHER -> { S("s1"), S(""), I(MaxCount) }

ConfigKeys(a) ==
    CASE a = "discord" -> {"server_id", "message_read_count", "message_emoji_name"}
      [] a = "eternalai" -> {"model", "chain_id"}
      [] a = "github" -> {"model"}

\* Mappings validate_config may be handed: any subset of the fields, each with
\* any of its values.
ConfigInputs(a) ==
    UNION { { m \in [ks -> UNION { ConfigValuesFor(k) : k \in ks }] :
                  \A k \in ks : m[k] \in ConfigValuesFor(k) } : ks \in SUBSET ConfigKeys(a) }

\* Raw configuration mappings handed to the constructor.
RawConfigs(a) ==
    CASE a = "discord" ->
             { ("server_id" :> S("s1")) @@ ("message_read_count" :> I(n))
                   @@ ("message_emoji_name" :> S("e1")) : n \in 0..MaxCount }
             \cup { ("server_id" :> S("s1")) @@ ("message_read_count" :> I(1)) }
      [] a = "eternalai" ->
             { ("model" :> S("m1")), ("model" :> I(7)), EmptyMap,
               ("model" :> S("m1")) @@ ("chain_id" :> S("")),
               ("model" :> S("m1")) @@ ("chain_id" :> S("c1")) }
      [] a = "github" -> { EmptyMap, ("model" :> S("m1")) }

\* Values a caller may bind to a key of args.
ValuesFor(k) ==
    CASE k = "count" -> { I(0), I(MaxCount + 1), S("many") }
      [] k \in {"emoji_name", "server_id", "model"} -> { S("x"), S(""), I(7) }
      [] k = "chain_id" -> { S("c2"), S("") }
      [] k = "extra" -> { S("x") }
      [] k = "message_id" -> { S("a") }
      [] OTHER -> { S("a"), I(7) }

RECURSIVE MapsOver(_)
MapsOver(keys) ==
    IF keys = {} THEN { EmptyMap }
    ELSE LET k == CHOOSE x \in keys : TRUE
             rest == MapsOver(keys \ {k})
         IN  rest \cup { Put(m, k, v) : m \in rest, v \in ValuesFor(k) }

Declared(action) == { action.parameters[i].name : i \in 1..Len(action.parameters) }

\* Keys beyond the declared parameters that a caller may add.
ExtraKeys(a, action_name) ==
    IF a = "eternalai" /\ action_name = Name2("generate", "text")
    THEN {"extra", "chain_id"}
    ELSE {"extra"}

Names(a) ==
    (DOMAIN register_actions(a))
        \cup { Name2("generate", "text"), <<"read", "_", "messages">> }

ArgsFor(a, registry, action_name) ==
    IF action_name \in DOMAIN registry
    THEN MapsOver(Declared(registry[action_name]) \cup ExtraKeys(a, action_name))
    ELSE MapsOver({"model"})

\* ------------------------------------------------------------------ state
VARIABLES
    self,          \* the class of the adapter instance
    config,        \* self.config
    actions,       \* self.actions
    client,        \* self._client (EternalAI, GitHub)
    bot_username,  \* self.bot_username (Discord)
    env,           \* os.environ of the process
    dotenv,        \* the .env file
    valid,         \* credentials the platform accepts now
    last           \* the last call made on the adapter and what it left behind

vars == <<self, config, actions, client, bot_username, env, dotenv, valid, last>>

St == [config |-> config, actions |-> actions, client |-> client,
       bot_username |-> bot_username, env |-> env, dotenv |-> dotenv, valid |-> valid]

Blank ==
    [op |-> "init", name |-> <<>>, args |-> EmptyMap, before |-> NoClient,
     outcome |-> "", cause |-> "", errors |-> <<>>, kwargs |-> EmptyMap,
     method |-> <<>>, received |-> EmptyMap, calls |-> <<>>,
     ret |-> FALSE, prompted |-> FALSE, entered |-> None, answer |-> "", verbose |-> FALSE,
     logged |-> FALSE, raw |-> EmptyMap, result |-> Accept(EmptyMap)]

\* BaseConnection.__init__: validate_config, then register_actions.
Init ==
    /\ self \in Adapters
    /\ config \in { c \in RawConfigs(self) : validate_config(self, c).ok }
    /\ actions = register_actions(self)
    /\ client = NoClient
    /\ bot_username = None
    /\ env \in EnvStates(self)
    /\ dotenv \in DotenvStates(self)
    /\ valid \in SUBSET Tokens
    /\ last = Blank

\* No call is in progress and no result is waiting for the caller.
Idle == last.op = "init"

RegisterActions ==
    /\ Idle
    /\ actions' = register_actions(self)
    /\ last' = [Blank EXCEPT !.op = "register"]
    /\ UNCHANGED <<self, config, client, bot_username, env, dotenv, valid>>

PerformAction ==
    /\ Idle
    /\ \E action_name \in Names(self) :
      \E kwargs \in ArgsFor(self, actions, action_name) :
        LET r == perform_action(self, action_name, kwargs, St)
        IN  /\ client' = r.client
            /\ bot_username' = r.bot_username
            /\ last' = [Blank EXCEPT !.op = "perform", !.name = action_name,
                                     !.args = kwargs, !.before = client,
                                     !.outcome = r.outcome, !.cause = r.cause,
                                     !.errors = r.errors, !.kwargs = r.kwargs,
                                     !.method = r.method, !.received = r.received,
                                     !.calls = r.calls]
            /\ UNCHANGED <<self, config, actions, env, dotenv, valid>>

IsConfigured ==
    /\ Idle
    /\ \E verbose \in BOOLEAN :
        LET r == is_configured(self, verbose, St)
        IN  /\ env' = r.env
            /\ dotenv' = r.dotenv
            /\ bot_username' = r.bot_username
            /\ last' = [Blank EXCEPT !.op = "is_configured", !.ret = r.ret,
                                     !.calls = r.calls, !.verbose = verbose,
                                     !.logged = r.logged]
            /\ UNCHANGED <<self, config, actions, client, valid>>

Configure ==
    /\ Idle
    /\ \E answer \in {"y", "n"}, api_key \in Tokens, api_url \in Urls :
        LET r == configure(self, answer, api_key, api_url, St)
        IN  /\ env' = r.env
            /\ dotenv' = r.dotenv
            /\ bot_username' = r.bot_username
            /\ last' = [Blank EXCEPT !.op = "configure", !.ret = r.ret,
                                     !.calls = r.calls, !.prompted = r.prompted,
                                     !.entered = r.entered,
                                     !.answer = IF r.asked THEN answer ELSE ""]
            /\ UNCHANGED <<self, config, actions, client, valid>>

\* validate_config(config) called with a mapping; the instance is not touched.
ValidateConfig ==
    /\ Idle
    /\ \E raw \in ConfigInputs(self) :
        last' = [Blank EXCEPT !.op = "validate_config", !.raw = raw,
                              !.result = validate_config(self, raw)]
    /\ UNCHANGED <<self, config, actions, client, bot_username, env, dotenv, valid>>

\* The platform starts or stops accepting a credential.
PlatformChange ==
    /\ Idle
    /\ \E t \in Tokens : valid' = IF t \in valid THEN valid \ {t} ELSE valid \cup {t}
    /\ UNCHANGED <<self, config, actions, client, bot_username, env, dotenv, last>>

\* The caller takes the result of the call; the adapter is ready for the next.
Return ==
    /\ ~Idle
    /\ last' = Blank
    /\ UNCHANGED <<self, config, actions, client, bot_username, env, dotenv, valid>>

Next ==
    RegisterActions \/ ValidateConfig \/ PerformAction \/ IsConfigured \/ Configure
        \/ PlatformChange \/ Return

Spec == Init /\ [][Next]_vars

\* ------------------------------------------------------------------ claims
Performed == last.op = "perform"
Registered == last.name \in DOMAIN actions
PassedValidation == Registered /\ validate_params(actions[last.name], last.args) = <<>>

\* The adapter as it was when the last perform_action call started.
StBefore == [St EXCEPT !.client = last.before]

\* C1: perform_action with a name that is no key of the registry fails with the
\* unknown-action error whatever args holds; no operation is invoked and no
\* platform call is made.
C1_UnknownActionFails ==
    (Performed /\ ~Registered) =>
        /\ last.outcome = "KeyError"
        /\ last.method = <<>>
        /\ last.calls = <<>>

C1_Witness ==
    /\ Performed
    /\ self = "github"
    /\ last.name = Name2("generate", "text")
    /\ last.args # EmptyMap
    /\ last.outcome = "KeyError"

\* Indices of the declared parameters of an action that args violates.
Violations(action, args) ==
    { i \in 1..Len(action.parameters) :
          LET p == action.parameters[i]
          IN  \/ p.required /\ p.name \notin DOMAIN args
              \/ p.name \in DOMAIN args /\ ~Compatible(p.type, args[p.name]) }

\* C2: for a registered action perform_action fails with the invalid-parameters
\* error exactly when a required parameter is absent or a present parameter has
\* the wrong kind; the error carries one message per violation in declaration
\* order, and it is raised before default injection, before any operation and
\* before any platform call, with args left as the caller gave it.
C2_InvalidParameters ==
    (Performed /\ Registered) =>
        LET action == actions[last.name]
            bad == Violations(action, last.args)
        IN  /\ (last.outcome = "ValueError") <=> (bad # {})
            /\ last.outcome = "ValueError" =>
                  /\ Len(last.errors) = Cardinality(bad)
                  /\ \A j \in 1..Len(last.errors) :
                        \E i \in bad :
                           /\ Cardinality({x \in bad : x < i}) = j - 1
                           /\ last.errors[j].param = action.parameters[i].name
                           /\ (last.errors[j].err = "missing")
                                 <=> (action.parameters[i].name \notin DOMAIN last.args)
                  /\ last.kwargs = last.args
                  /\ last.method = <<>>
                  /\ last.calls = <<>>

C2_Witness ==
    /\ Performed
    /\ self = "eternalai"
    /\ last.name = Name2("generate", "text")
    /\ last.outcome = "ValueError"
    /\ Len(last.errors) = 3
    /\ last.errors[1].err = "missing"
    /\ last.errors[2].err = "type"

\* C3: Discord read-messages and read-mentioned-messages with a valid
\* channel_id: the platform request carries count = config["message_read_count"]
\* when args has no "count", and exactly the supplied count when it has one.
C3_ReadCount ==
    ( /\ Performed
      /\ self = "discord"
      /\ last.name \in {Name2("read", "messages"), Name3("read", "mentioned", "messages")}
      /\ PassedValidation ) =>
        /\ Len(last.calls) = 1
        /\ last.calls[1].params["channel_id"] = last.args["channel_id"]
        /\ last.calls[1].params["count"] =
              IF "count" \in DOMAIN last.args THEN last.args["count"]
              ELSE config["message_read_count"]

C3_Witness ==
    /\ Performed
    /\ self = "discord"
    /\ last.name = Name3("read", "mentioned", "messages")
    /\ "count" \notin DOMAIN last.args
    /\ config["message_read_count"].val > 1
    /\ last.outcome = "ok"
    /\ last.calls[1].params["count"] = config["message_read_count"]

\* Optional parameters an operation fills from the configuration.
DefaultedParams(a, action_name) ==
    IF a = "discord" /\ action_name \in {Name2("read", "messages"),
                                         Name3("read", "mentioned", "messages")}
    THEN {"count"}
    ELSE IF a = "discord" /\ action_name = Name3("react", "to", "message")
    THEN {"emoji_name"}
    ELSE IF a = "discord" /\ action_name = Name2("list", "channels")
    THEN {"server_id"}
    ELSE IF a = "eternalai" /\ action_name = Name2("generate", "text")
    THEN {"model", "chain_id"}
    ELSE {}

\* The configuration key behind a defaulted parameter.
ConfigKey(k) ==
    CASE k = "count" -> "message_read_count"
      [] k = "emoji_name" -> "message_emoji_name"
      [] OTHER -> k

\* C4 as stated: whenever the platform is called, a defaulted parameter that
\* the caller supplied reaches the platform with the supplied value, whatever
\* it is, and the configuration value is used only when args lacks the key.
C4_SuppliedValueAlwaysUsed ==
    (Performed /\ Registered /\ last.calls # <<>>) =>
        \A k \in DefaultedParams(self, last.name) :
            last.calls[1].params[k] =
                IF k \in DOMAIN last.args THEN last.args[k] ELSE config[ConfigKey(k)]

\* C4 amended: on Discord a supplied count, emoji_name or server_id is used
\* whatever it is; on EternalAI a supplied model or chain_id is used when it is
\* non-empty, and an empty one is treated as absent: the configuration value
\* is used, and for chain_id "45762" when that is empty too.
C4_SuppliedValueUsedUnlessEmpty ==
    (Performed /\ Registered /\ last.calls # <<>>) =>
        \A k \in DefaultedParams(self, last.name) :
            LET supplied == /\ k \in DOMAIN last.args
                            /\ (self = "eternalai" => Truthy(last.args[k]))
                fallback == IF k = "chain_id" /\ ~Truthy(config[ConfigKey(k)])
                            THEN S("45762")
                            ELSE config[ConfigKey(k)]
            IN  last.calls[1].params[k] = IF supplied THEN last.args[k] ELSE fallback

C4_Witness ==
    /\ Performed
    /\ self = "eternalai"
    /\ last.name = Name2("generate", "text")
    /\ "model" \in DOMAIN last.args
    /\ last.args["model"] = S("")
    /\ "chain_id" \in DOMAIN last.args
    /\ last.args["chain_id"] = S("c2")
    /\ last.outcome = "ok"
    /\ last.calls[1].params["model"] = config["model"]
    /\ last.calls[1].params["chain_id"] = S("c2")

\* C5: every key of the action registry equals the name of the Action stored
\* under it, after construction and after register_actions.
C5_KeyEqualsName == \A k \in DOMAIN actions : actions[k].name = k

\* C6: every registered action name converts (hyphen to underscore) to an
\* operation of the adapter, so a perform_action call that passes lookup and
\* validation reaches an operation.
C6_EveryActionHasOperation ==
    /\ \A k \in DOMAIN actions : Replace(k) \in Methods(self)
    /\ (Performed /\ PassedValidation) => last.method = Replace(last.name)

\* C7: a registered action whose args pass validation but whose converted name
\* is no operation of the adapter fails with a routing error that is neither
\* the unknown-action nor the invalid-parameters error; the failure reaches the
\* caller and no platform call is made.
C7_RoutingError ==
    (Performed /\ PassedValidation /\ Replace(last.name) \notin Methods(self)) =>
        /\ last.outcome = "AttributeError"
        /\ last.outcome \notin {"KeyError", "ValueError", "ok"}
        /\ last.method = <<>>
        /\ last.calls = <<>>

C7_Witness ==
    /\ Performed
    /\ self = "github"
    /\ last.name = Name3("get", "repo", "updates")
    /\ PassedValidation
    /\ last.outcome = "AttributeError"

\* C8: keys of args beyond the declared parameters never cause a validation
\* failure and never make the invocation fail; the operation receives them
\* with their values unchanged, and the declared parameters are validated,
\* completed and sent to the platform as in the same call without the extra keys.
C8_ExtraKeysTolerated ==
    (Performed /\ Registered) =>
        LET declared == Declared(actions[last.name])
            extras == (DOMAIN last.args) \ declared
            plain == perform_action(self, last.name, Restrict(last.args, declared),
                                    StBefore)
        IN  /\ last.errors = plain.errors
            /\ (last.outcome = "ValueError") <=> (plain.outcome = "ValueError")
            /\ last.outcome # "TypeError"
            /\ plain.outcome = "ok" => last.outcome = "ok"
            /\ last.method = plain.method
            /\ last.method # <<>> =>
                  /\ \A k \in extras : k \in DOMAIN last.received
                                       /\ last.received[k] = last.args[k]
                  /\ Restrict(last.received, declared) = Restrict(plain.received, declared)
            /\ (last.calls # <<>> /\ plain.calls # <<>>) =>
                  /\ Restrict(last.calls[1].params, declared)
                        = Restrict(plain.calls[1].params, declared)
                  /\ last.calls[1].api = plain.calls[1].api

C8_Witness ==
    /\ Performed
    /\ self = "discord"
    /\ last.name = Name3("react", "to", "message")
    /\ "extra" \in DOMAIN last.args
    /\ "emoji_name" \notin DOMAIN last.args
    /\ last.outcome = "ok"
    /\ last.received["extra"] = S("x")
    /\ last.calls[1].params["emoji_name"] = config["message_emoji_name"]

\* C9 as stated: a perform_action call leaves the adapter's fields (config,
\* registry, cached client, bot name) and the caller's args mapping as they
\* were before the call.
C9_CallLeavesNoTrace ==
    [][last'.op = "perform" =>
          /\ config' = config
          /\ actions' = actions
          /\ bot_username' = bot_username
          /\ client' = client
          /\ last'.kwargs = last'.args]_vars

\* C9 amended: a perform_action call leaves config, registry and bot name as
\* they were and keeps a client that is already cached; it may cache a client
\* built from the environment's credentials when none was cached (EternalAI),
\* and it may add the injected default key to the caller's args mapping
\* (Discord), never changing a key the caller supplied.
C9_CallKeepsConfigAndRegistry ==
    [][last'.op = "perform" =>
          /\ config' = config
          /\ actions' = actions
          /\ bot_username' = bot_username
          /\ client # NoClient => client' = client
          /\ client' # client =>
                /\ self = "eternalai"
                /\ client' = OpenAI(env["EternalAI_API_KEY"], env["EternalAI_API_URL"])
          /\ Restrict(last'.kwargs, DOMAIN last'.args) = last'.args
          /\ last'.kwargs # last'.args =>
                /\ self = "discord"
                /\ (DOMAIN last'.kwargs) \ (DOMAIN last'.args)
                      = DefaultedParams(self, last'.name)
                /\ \A k \in DefaultedParams(self, last'.name) :
                      last'.kwargs[k] = config[ConfigKey(k)]]_vars

C9_Witness ==
    /\ Performed
    /\ self = "eternalai"
    /\ last.before = NoClient
    /\ client = OpenAI("t2", "u1")
    /\ last.outcome = "EternalAIAPIError"
    /\ last.cause = "KeyError"

\* C10: when the operator enters a credential, configure() returns true only
\* if a request carrying that entered credential was accepted by the platform
\* during the call.
C10_ConfigureVerifiesEntered ==
    (last.op = "configure" /\ last.prompted /\ last.ret) =>
        \E i \in 1..Len(last.calls) :
            last.calls[i].cred = last.entered /\ last.calls[i].accepted


\* C11: configuration is atomic: when configure() returns false the .env file
\* holds the same credential values as before the call.
C11_FailedConfigureKeepsStore ==
    [][(last'.op = "configure" /\ ~last'.ret) => dotenv' = dotenv]_vars


\* The environment keys whose values is_configured takes as the stored
\* credential of the class.
CredentialKeys(a) ==
    CASE a = "discord" -> {"DISCORD_TOKEN"}
      [] a = "eternalai" -> {"EternalAI_API_KEY", "EternalAI_API_URL"}
      [] a = "github" -> {"OPENAI_API_KEY"}

SecretKey(a) ==
    CASE a = "discord" -> "DISCORD_TOKEN"
      [] a = "eternalai" -> "EternalAI_API_KEY"
      [] a = "github" -> "OPENAI_API_KEY"

\* The value a key has for the process once the .env file has been loaded.
Stored(k) == IF env[k] # None THEN env[k] ELSE dotenv[k]

CredentialStored(a) == \A k \in CredentialKeys(a) : ~EnvFalsy(Stored(k))

\* C12: is_configured(verbose) returns a boolean and never raises; it returns
\* false with no platform call when no credential is stored, and false when the
\* stored credential fails verification; it returns true only when the stored
\* credential was sent to the platform and accepted in this call; and
\* verbose=true and verbose=false give the same boolean.
C12_IsConfigured ==
    [][last'.op = "is_configured" =>
        /\ last'.ret \in BOOLEAN
        /\ ~CredentialStored(self) => (~last'.ret /\ last'.calls = <<>>)
        /\ (CredentialStored(self) /\ Stored(SecretKey(self)) \notin valid) => ~last'.ret
        /\ last'.ret =>
              /\ CredentialStored(self)
              /\ \E i \in 1..Len(last'.calls) :
                    /\ last'.calls[i].cred = Stored(SecretKey(self))
                    /\ last'.calls[i].accepted
        /\ last'.ret = is_configured(self, ~last'.verbose, St).ret
        /\ last'.logged => (last'.verbose /\ ~last'.ret)
      ]_vars

\* is_configured(verbose=True) found a stored credential, the platform refused
\* it, and the call returned false after writing its diagnostic message.
C12_Witness ==
    /\ last.op = "is_configured"
    /\ last.verbose
    /\ last.logged
    /\ ~last.ret
    /\ last.calls # <<>>
    /\ ~last.calls[1].accepted


\* The last perform_action call reached an operation of the class and the
\* operation bound its arguments.
OperationRan == Performed /\ last.method # <<>> /\ last.cause # "binding"

\* No credential was available to the operation when the call started.
NoCredentialAtCall ==
    CASE self = "discord" -> EnvFalsy(env["DISCORD_TOKEN"])
      [] self = "eternalai" ->
             /\ last.before = NoClient
             /\ EnvFalsy(env["EternalAI_API_KEY"]) \/ EnvFalsy(env["EternalAI_API_URL"])
      [] self = "github" ->
             /\ last.before = NoClient
             /\ EnvFalsy(env["GITHUB_ACCESS_TOKEN"])

ConfigurationErrors ==
    {"DiscordConfigurationError", "EternalAIConfigurationError", "GitHubConfigurationError"}

\* C13: a perform_action call whose operation needs the platform, made while no
\* credential is present, ends with the configuration error of the class (not
\* with its API error) and sends no platform request.
C13_NoCredentialIsConfigurationError ==
    (OperationRan /\ NoCredentialAtCall) =>
        /\ last.outcome \in ConfigurationErrors
        /\ last.calls = <<>>


\* A positive integer, a bool being an integer as for action parameters.
PositiveInteger(v) == (v.kind = "int" /\ v.val > 0) \/ (v.kind = "bool" /\ v.val)
NonEmptyString(v) == v.kind = "str" /\ v.val # ""

\* The fields a class requires, in the order it tests their presence, and the
\* order in which it then tests their values.
RequiredFields(a) ==
    CASE a = "discord" -> <<"server_id", "message_read_count", "message_emoji_name">>
      [] a = "eternalai" -> <<"model">>
      [] a = "github" -> <<>>

ValueOrder(a) ==
    CASE a = "discord" -> <<"message_read_count", "message_emoji_name", "server_id">>
      [] a = "eternalai" -> <<"model">>
      [] a = "github" -> <<>>

ConstraintOf(field) ==
    CASE field = "message_read_count" -> "positive integer"
      [] field = "model" -> "string"
      [] OTHER -> "valid string"

Satisfies(field, v) ==
    CASE field = "message_read_count" -> PositiveInteger(v)
      [] field = "model" -> v.kind = "str"
      [] OTHER -> NonEmptyString(v)

Acceptable(a, raw) ==
    \A i \in 1..Len(RequiredFields(a)) :
        /\ RequiredFields(a)[i] \in DOMAIN raw
        /\ Satisfies(RequiredFields(a)[i], raw[RequiredFields(a)[i]])

\* C14: validate_config changes nothing of the instance; it accepts exactly the
\* mappings whose required fields are present and satisfy their constraints
\* and returns such a mapping unmodified; a rejection names the first offending
\* field (a missing field before any value, then in the order the values are
\* tested) with its constraint; validating the returned mapping again returns it.
C14_ValidateConfig ==
    [][last'.op = "validate_config" =>
        LET raw == last'.raw
            r == last'.result
            req == RequiredFields(self)
            ord == ValueOrder(self)
        IN  /\ UNCHANGED <<self, config, actions, client, bot_username, env, dotenv, valid>>
            /\ r.ok <=> Acceptable(self, raw)
            /\ r.config = raw
            /\ r.ok => validate_config(self, r.config) = r
            /\ ~r.ok =>
                  IF \E i \in 1..Len(req) : req[i] \notin DOMAIN raw
                  THEN \E i \in 1..Len(req) :
                          /\ req[i] = r.field
                          /\ req[i] \notin DOMAIN raw
                          /\ \A j \in 1..(i - 1) : req[j] \in DOMAIN raw
                          /\ r.constraint = "missing"
                  ELSE \E i \in 1..Len(ord) :
                          /\ ord[i] = r.field
                          /\ ~Satisfies(ord[i], raw[ord[i]])
                          /\ \A j \in 1..(i - 1) : Satisfies(ord[j], raw[ord[j]])
                          /\ r.constraint = ConstraintOf(r.field)
      ]_vars

\* validate_config rejected a Discord mapping in which both message_read_count
\* and server_id offend, naming message_read_count.
C14_Witness ==
    /\ last.op = "validate_config"
    /\ self = "discord"
    /\ ~last.result.ok
    /\ last.result.field = "message_read_count"
    /\ "server_id" \in DOMAIN last.raw
    /\ last.raw["server_id"] = S("")


\* The credential the next platform request of perform_action would carry.
CredentialOfNextRequest ==
    CASE self = "discord" -> _get_request_auth_token(load_dotenv(env, dotenv))
      [] self = "eternalai" ->
             EternalAI_get_client([St EXCEPT !.env = load_dotenv(env, dotenv)]).client.api_key
      [] self = "github" ->
             GitHub_get_client([St EXCEPT !.env = load_dotenv(env, dotenv)]).client.api_key

\* C15: when configure() has taken a credential from the operator and returned
\* true, and the platform accepts that credential, the next is_configured()
\* returns true and the next perform_action request (made after it) carries
\* the entered credential.
C15_ConfiguredCredentialIsUsed ==
    (last.op = "configure" /\ last.prompted /\ last.ret /\ last.entered \in valid) =>
        /\ is_configured(self, FALSE, St).ret
        /\ CredentialOfNextRequest = last.entered


\* C16: the configuration accepted at construction holds every key an operation
\* reads to fill a parameter the caller left out: a perform_action call whose
\* arguments pass validation never fails for a missing configuration key.
C16_AcceptedConfigHasDefaults ==
    (Performed /\ PassedValidation /\ validate_config(self, config).ok) =>
        last.cause # "KeyError"

====
